---- MODULE Spec2Model ----
(***************************************************************************)
(* tiff-png: conversion of one TIFF image to an 8-bit RGBA PNG.            *)
(*                                                                         *)
(* The repository holds four revisions of the same program:                *)
(*   "main1"  src/main.cc lines 1-153     try/catch, one row buffer        *)
(*   "main2"  src/main.cc lines 154-322   hand-written cleanup per exit,   *)
(*                                        one buffer per row               *)
(*   "part0"  src/unnamed/part_000        Resources guard object,          *)
(*                                        one row buffer                   *)
(*   "part1"  src/unnamed/part_001        try/catch, one buffer per row    *)
(* The model runs main() and save_tiff_as_png() of each revision as a      *)
(* state machine; libtiff, libpng, malloc and fopen are the environment    *)
(* and succeed or fail nondeterministically.                               *)
(*                                                                         *)
(* A uint32_t does not fit TLC's integers, so a 32-bit word is the record  *)
(* [hi, lo] of its two 16-bit halves: value = hi * 65536 + lo.             *)
(***************************************************************************)
EXTENDS Integers, Sequences, FiniteSets, TLC

\* ------------------------------------------------------------------ bounds
MaxWidth == 2
MaxHeight == 2
MaxArgs == 2

\* ------------------------------------------------------- 32-bit arithmetic
Half == 65536
Byte == 256

Word(h, l) == [hi |-> h, lo |-> l]

\* (px >> 16) & 0xFF
RedSwapped(px) == px.lo % Byte
Red(px) == px.hi % Byte
\* (px >> 8) & 0xFF
Green(px) == (px.lo \div Byte) % Byte
\* px & 0xFF
Blue(px) == px.lo % Byte
\* (px >> 24) & 0xFF
Alpha(px) == (px.hi \div Byte) % Byte

\* The packed pixels the decoder may deliver: 0x80304050, 0xFF0000FF,
\* 0x01020304, 0x00FFFF00, 0x7F10E0A5.
Pixels == << Word(32816, 16464), Word(65280, 255), Word(258, 772),
             Word(255, 65280), Word(32528, 57509) >>
NumPixels == Len(Pixels)

\* Content of a raster of w*h pixels (TIFFReadRGBAImageOriented's output for
\* one of the test images, top-left origin, row-major).
TestImage(seed, w, h) ==
    [i \in 1..(w * h) |-> Pixels[((seed + i - 1) % NumPixels) + 1]]

\* ------------------------------------------------------------------- state
Revisions == {"main1", "main2", "part0", "part1"}
SingleRow == {"main1", "part0"}      \* one row buffer, png_write_row
RowPointers == {"main2", "part1"}    \* a buffer per row, png_write_image

Res == ({"raster", "fp", "png", "info"} \X {0}) \cup ({"row"} \X (1..MaxHeight))
Junk == -1      \* a byte of a malloc'ed buffer that was never written

VARIABLES
    rev,          \* the revision that runs
    argv,         \* positional arguments: "valid" opens, "missing" does not
    pc,           \* position in main / save_tiff_as_png
    width, height,
    rasterData,   \* content of the raster after the decode
    raster, fp, png_ptr, info_ptr, row,   \* TRUE: the pointer is non-null
    row_pointers, \* std::vector<png_bytep>: TRUE where the element is non-null
    bufs,         \* content of every row buffer malloc'ed so far
    bufSrc,       \* the source row each buffer was last filled from
    y,            \* loop counter of the row loop / of png_write_image
    trap,         \* setjmp(png_jmpbuf) has been executed
    encLog,       \* the encoder calls made, in order
    acq, rel,     \* per resource: times acquired, times released
    failed,       \* some step has failed
    result,       \* "none" | "true" | "false" | "throw"
    exitCode,     \* -1 while running
    out,          \* lines printed
    attempted,    \* argument positions given to TIFFOpen
    fileOpened,   \* the output path was opened with "wb"
    decoded,      \* TIFFReadRGBAImageOriented has succeeded
    rowAllocs,    \* malloc calls for row buffers
    loopAllocs,   \* ... of which inside the row loop
    idx           \* index arithmetic of the pixel loop (SpecIdx)

vars == << rev, argv, pc, width, height, rasterData, raster, fp, png_ptr,
           info_ptr, row, row_pointers, bufs, bufSrc, y, trap, encLog, acq,
           rel, failed, result, exitCode, out, attempted, fileOpened, decoded,
           rowAllocs, loopAllocs, idx >>

\* variable groups, for UNCHANGED
ptrs == << raster, fp, png_ptr, info_ptr, row, row_pointers >>
rowState == << bufs, bufSrc, y, rowAllocs, loopAllocs >>
mainState == << rev, argv, exitCode, out, attempted >>
dims == << width, height, rasterData, decoded >>

RECURSIVE SeqsUpTo(_, _)
SeqsUpTo(S, n) ==
    IF n = 0 THEN { <<>> }
    ELSE LET shorter == SeqsUpTo(S, n - 1)
         IN  shorter \cup { Append(s, e) : s \in shorter, e \in S }

IdxIdle == [w |-> Word(0, 1), x |-> Word(0, 0), c |-> 0, off |-> Word(0, 0),
            stage |-> "idle"]

Init ==
    /\ rev \in Revisions
    /\ argv \in SeqsUpTo({"valid", "missing"}, MaxArgs)
    /\ pc = "main"
    /\ width = 0 /\ height = 0
    /\ rasterData = <<>>
    /\ raster = FALSE /\ fp = FALSE /\ png_ptr = FALSE /\ info_ptr = FALSE
    /\ row = FALSE
    /\ row_pointers = <<>>
    /\ bufs = <<>> /\ bufSrc = <<>>
    /\ y = 0
    /\ trap = FALSE
    /\ encLog = <<>>
    /\ acq = [r \in Res |-> 0] /\ rel = [r \in Res |-> 0]
    /\ failed = FALSE
    /\ result = "none"
    /\ exitCode = -1
    /\ out = <<>>
    /\ attempted = {}
    /\ fileOpened = FALSE
    /\ decoded = FALSE
    /\ rowAllocs = 0 /\ loopAllocs = 0
    /\ idx = IdxIdle

\* ------------------------------------------------------------------ helpers
Acquire(r) == [acq EXCEPT ![r] = @ + 1]
Release(S) == [r \in Res |-> IF r \in S THEN rel[r] + 1 ELSE rel[r]]
R(name) == << name, 0 >>
RowRes(i) == << "row", i >>

\* A step of save_tiff_as_png fails after the resources in `cleanup` were
\* acquired. main2 releases them by hand at the failing statement and returns
\* false; the other revisions throw, and the catch block / the guard's
\* destructor does the releasing.
Fail(cleanup) ==
    /\ failed' = TRUE
    /\ IF rev = "main2"
       THEN /\ rel' = Release(cleanup)
            /\ result' = "false"
            /\ pc' = "Return"
       ELSE /\ pc' = "Catch"
            /\ UNCHANGED << rel, result >>


\* One call into libpng that can raise its fatal error (png_error, which
\* longjmps to png_jmpbuf). With no jump buffer set libpng aborts the process.
EncCall(op, src, data, next) ==
    \E ok \in BOOLEAN :
        /\ encLog' = Append(encLog, [op |-> op, y |-> src, data |-> data,
                                     trap |-> trap, ok |-> ok])
        /\ IF ok
           THEN pc' = next /\ UNCHANGED failed
           ELSE failed' = TRUE /\ pc' = (IF trap THEN "Jmp" ELSE "abort")

\* The inner pixel loop: row[x*4 + 0..3] = R, G, B, A of raster[y*width + x].
StorePixel(buf, x, px) ==
    [buf EXCEPT ![x * 4 + 0 + 1] = Red(px),
                ![x * 4 + 1 + 1] = Green(px),
                ![x * 4 + 2 + 1] = Blue(px),
                ![x * 4 + 3 + 1] = Alpha(px)]

RECURSIVE FillFrom(_, _, _)
FillFrom(buf, yy, x) ==
    IF x < width
    THEN FillFrom(StorePixel(buf, x, rasterData[yy * width + x + 1]), yy, x + 1)
    ELSE buf

FillRow(buf, yy) == FillFrom(buf, yy, 0)

\* malloc((size_t)width * 4): contents indeterminate
FreshRow == [i \in 1..(width * 4) |-> Junk]

\* What the pointer-guarded cleanup releases: `if (row) free(row)` or the loop
\* over row_pointers, `if (png_ptr) png_destroy_write_struct(&png_ptr,
\* info_ptr ? &info_ptr : NULL)`, `if (fp) fclose(fp)`, `if (raster)
\* _TIFFfree(raster)`.
GuardedFrees ==
    (IF rev \in SingleRow
     THEN (IF row THEN {RowRes(1)} ELSE {})
     ELSE {RowRes(i) : i \in {j \in 1..Len(row_pointers) : row_pointers[j]}})
    \cup (IF png_ptr
          THEN {R("png")} \cup (IF info_ptr THEN {R("info")} ELSE {})
          ELSE {})
    \cup (IF fp THEN {R("fp")} ELSE {})
    \cup (IF raster THEN {R("raster")} ELSE {})

\* The unguarded cleanup at the end of the try block / of main2.
NormalFrees ==
    (IF rev \in SingleRow THEN {RowRes(1)} ELSE {RowRes(i) : i \in 1..height})
    \cup {R("png"), R("info"), R("fp"), R("raster")}

\* -------------------------------------------------------------------- main
\* const char* tiff_file = argv[1];
InputIndexLast == Len(argv)
InputIndex == 1

Main ==
    /\ pc = "main"
    /\ IF Len(argv) + 1 < 2
       THEN /\ out' = Append(out, [line |-> "usage", arg |-> 0])
            /\ exitCode' = 1
            /\ pc' = "exit"
            /\ UNCHANGED attempted
       ELSE /\ attempted' = attempted \cup {InputIndex}
            /\ IF argv[InputIndex] = "missing"
               THEN /\ out' = Append(out, [line |-> "open-error", arg |-> InputIndex])
                    /\ exitCode' = 1
                    /\ pc' = "exit"
               ELSE /\ pc' = "GetDims"
                    /\ UNCHANGED << out, exitCode >>
    /\ UNCHANGED << rev, argv, dims, ptrs, rowState, trap, encLog, acq, rel,
                    failed, result, fileOpened, idx >>

\* After save_tiff_as_png: TIFFClose, report, exit status. main2 has no try
\* block, so an exception leaving save_tiff_as_png ends in std::terminate
\* (abort, status 134).
Return ==
    /\ pc = "Return"
    /\ pc' = "exit"
    /\ CASE result = "true" ->
              /\ exitCode' = 0
              /\ out' = IF rev = "part0" THEN out
                        ELSE Append(out, [line |-> "saved", arg |-> InputIndex])
         [] result = "throw" /\ rev = "main2" ->
              /\ exitCode' = 134
              /\ out' = out
         [] OTHER ->
              /\ exitCode' = 1
              /\ out' = Append(out, [line |-> "failed", arg |-> InputIndex])
    /\ UNCHANGED << rev, argv, attempted, dims, ptrs, rowState, trap, encLog,
                    acq, rel, failed, result, fileOpened, idx >>

\* -------------------------------------------------------- save_tiff_as_png
GetDims ==
    /\ pc = "GetDims"
    /\ \E ok \in BOOLEAN, w \in 1..MaxWidth, h \in 1..MaxHeight :
          IF ok
          THEN /\ width' = w /\ height' = h
               /\ pc' = "AllocRaster"
               /\ UNCHANGED << failed, rel, result >>
          ELSE /\ Fail({})
               /\ UNCHANGED << width, height >>
    /\ UNCHANGED << mainState, rasterData, decoded, ptrs, rowState, trap,
                    encLog, acq, fileOpened, idx >>

AllocRasterOpensOutput ==
    /\ pc = "AllocRaster"
    /\ \E ok \in BOOLEAN :
          IF ok
          THEN /\ raster' = TRUE /\ fp' = TRUE /\ fileOpened' = TRUE
               /\ acq' = [acq EXCEPT ![R("raster")] = @ + 1, ![R("fp")] = @ + 1]
               /\ pc' = "Decode"
               /\ UNCHANGED << failed, rel, result >>
          ELSE /\ Fail({})
               /\ UNCHANGED << raster, fp, fileOpened, acq >>
    /\ UNCHANGED << mainState, dims, png_ptr, info_ptr, row, row_pointers,
                    rowState, trap, encLog, idx >>

AllocRaster ==
    /\ pc = "AllocRaster"
    /\ \E ok \in BOOLEAN :
          IF ok
          THEN /\ raster' = TRUE
               /\ acq' = Acquire(R("raster"))
               /\ pc' = "Decode"
               /\ UNCHANGED << failed, rel, result >>
          ELSE /\ Fail({})
               /\ UNCHANGED << raster, acq >>
    /\ UNCHANGED << mainState, dims, fp, png_ptr, info_ptr, row, row_pointers,
                    rowState, trap, encLog, fileOpened, idx >>

Decode ==
    /\ pc = "Decode"
    /\ \E ok \in BOOLEAN, seed \in 0..(NumPixels - 1) :
          IF ok
          THEN /\ rasterData' = TestImage(seed, width, height)
               /\ decoded' = TRUE
               /\ pc' = "OpenOut"
               /\ UNCHANGED << failed, rel, result >>
          ELSE /\ Fail({R("raster")})
               /\ UNCHANGED << rasterData, decoded >>
    /\ UNCHANGED << mainState, width, height, ptrs, rowState, trap, encLog,
                    acq, fileOpened, idx >>

OpenOut ==
    /\ pc = "OpenOut"
    /\ \E ok \in BOOLEAN :
          IF ok
          THEN /\ fp' = TRUE
               /\ fileOpened' = TRUE
               /\ acq' = Acquire(R("fp"))
               /\ pc' = "CreateWrite"
               /\ UNCHANGED << failed, rel, result >>
          ELSE /\ Fail({R("raster")})
               /\ UNCHANGED << fp, fileOpened, acq >>
    /\ UNCHANGED << mainState, dims, raster, png_ptr, info_ptr, row,
                    row_pointers, rowState, trap, encLog, idx >>

CreateWrite ==
    /\ pc = "CreateWrite"
    /\ \E ok \in BOOLEAN :
          IF ok
          THEN /\ png_ptr' = TRUE
               /\ acq' = Acquire(R("png"))
               /\ pc' = "CreateInfo"
               /\ UNCHANGED << failed, rel, result >>
          ELSE /\ Fail({R("fp"), R("raster")})
               /\ UNCHANGED << png_ptr, acq >>
    /\ UNCHANGED << mainState, dims, raster, fp, info_ptr, row, row_pointers,
                    rowState, trap, encLog, fileOpened, idx >>

CreateInfo ==
    /\ pc = "CreateInfo"
    /\ \E ok \in BOOLEAN :
          IF ok
          THEN /\ info_ptr' = TRUE
               /\ acq' = Acquire(R("info"))
               /\ pc' = "SetJmp"
               /\ UNCHANGED << failed, rel, result >>
          ELSE /\ Fail({R("png"), R("fp"), R("raster")})
               /\ UNCHANGED << info_ptr, acq >>
    /\ UNCHANGED << mainState, dims, raster, fp, png_ptr, row, row_pointers,
                    rowState, trap, encLog, fileOpened, idx >>

\* if (setjmp(png_jmpbuf(png_ptr))) ...   (first return, value 0)
SetJmpOmitted ==
    /\ pc = "SetJmp"
    /\ pc' = "InitIo"
    /\ UNCHANGED << mainState, dims, ptrs, rowState, trap, encLog, acq, rel,
                    failed, result, fileOpened, idx >>

SetJmp ==
    /\ pc = "SetJmp"
    /\ trap' = TRUE
    /\ pc' = "InitIo"
    /\ UNCHANGED << mainState, dims, ptrs, rowState, encLog, acq, rel, failed,
                    result, fileOpened, idx >>

\* png_init_io only stores the FILE*; it raises no error.
InitIo ==
    /\ pc = "InitIo"
    /\ encLog' = Append(encLog, [op |-> "init_io", y |-> -1, data |-> <<>>,
                                 trap |-> trap, ok |-> TRUE])
    /\ pc' = "SetIHDR"
    /\ UNCHANGED << mainState, dims, ptrs, rowState, trap, acq, rel, failed,
                    result, fileOpened, idx >>

SetIHDR ==
    /\ pc = "SetIHDR"
    /\ EncCall("set_IHDR", -1, <<>>, "WriteInfo")
    /\ UNCHANGED << mainState, dims, ptrs, rowState, trap, acq, rel, result,
                    fileOpened, idx >>

WriteInfo ==
    /\ pc = "WriteInfo"
    /\ EncCall("write_info", -1, <<>>,
               IF rev \in SingleRow THEN "AllocRow" ELSE "VecAlloc")
    /\ UNCHANGED << mainState, dims, ptrs, rowState, trap, acq, rel, result,
                    fileOpened, idx >>


\* row = (png_bytep)malloc((size_t)width * 4), before the row loop
\* (main1, part0).
AllocRow ==
    /\ pc = "AllocRow"
    /\ \E ok \in BOOLEAN :
          IF ok
          THEN /\ row' = TRUE
               /\ acq' = Acquire(RowRes(1))
               /\ bufs' = << FreshRow >>
               /\ bufSrc' = << -1 >>
               /\ rowAllocs' = rowAllocs + 1
               /\ y' = 0
               /\ pc' = "RowLoop"
               /\ UNCHANGED << failed, rel, result >>
          ELSE /\ Fail({})
               /\ UNCHANGED << row, acq, bufs, bufSrc, rowAllocs, y >>
    /\ UNCHANGED << mainState, dims, raster, fp, png_ptr, info_ptr,
                    row_pointers, loopAllocs, trap, encLog, fileOpened, idx >>

\* part1: row_pointers.resize(height) inside the try block.
\* main2: std::vector<png_bytep> row_pointers(height) and row_data(width*4),
\* with no handler in save_tiff_as_png or main: std::bad_alloc leaves the
\* function with nothing released.
VecAlloc ==
    /\ pc = "VecAlloc"
    /\ \E ok \in BOOLEAN :
          IF ok
          THEN /\ row_pointers' = [i \in 1..height |-> FALSE]
               /\ y' = 0
               /\ pc' = "RowLoop"
               /\ UNCHANGED << failed, rel, result >>
          ELSE /\ failed' = TRUE
               /\ IF rev = "main2"
                  THEN result' = "throw" /\ pc' = "Return"
                  ELSE result' = result /\ pc' = "Catch"
               /\ UNCHANGED << row_pointers, y, rel >>
    /\ UNCHANGED << mainState, dims, raster, fp, png_ptr, info_ptr, row, bufs,
                    bufSrc, rowAllocs, loopAllocs, trap, encLog, acq,
                    fileOpened, idx >>

\* ++y
NextRow(yy) == yy + 1

\* One iteration of `for (y = 0; y < height; ++y)` in main1 and part0: fill
\* the row buffer from raster row y, png_write_row.
RowLoopSingleReallocates ==
    /\ pc = "RowLoop" /\ rev \in SingleRow
    /\ IF y < height
       THEN /\ bufs' = << FillRow(FreshRow, y) >>
            /\ bufSrc' = << y >>
            /\ rowAllocs' = rowAllocs + 1
            /\ loopAllocs' = loopAllocs + 1
            /\ EncCall("write_row", y, bufs'[1], "RowLoop")
            /\ y' = IF pc' = "RowLoop" THEN NextRow(y) ELSE y
       ELSE /\ pc' = "WriteEnd"
            /\ UNCHANGED << bufs, bufSrc, y, encLog, failed, rowAllocs,
                            loopAllocs >>
    /\ UNCHANGED << mainState, dims, ptrs, trap, acq, rel, result,
                    fileOpened, idx >>

RowLoopSingle ==
    /\ pc = "RowLoop" /\ rev \in SingleRow
    /\ IF y < height
       THEN /\ bufs' = << FillRow(bufs[1], y) >>
            /\ bufSrc' = << y >>
            /\ EncCall("write_row", y, bufs'[1], "RowLoop")
            /\ y' = IF pc' = "RowLoop" THEN NextRow(y) ELSE y
       ELSE /\ pc' = "WriteEnd"
            /\ UNCHANGED << bufs, bufSrc, y, encLog, failed >>
    /\ UNCHANGED << mainState, dims, ptrs, rowAllocs, loopAllocs, trap, acq,
                    rel, result, fileOpened, idx >>

\* One iteration of the row loop in main2 and part1: malloc a buffer, fill it
\* from raster row y, row_pointers[y] = row. On malloc failure part1 throws;
\* main2 frees row_pointers[0..y), the encoder structs, the file and the
\* raster and returns false.
RowLoopPointers ==
    /\ pc = "RowLoop" /\ rev \in RowPointers
    /\ IF y < height
       THEN \E ok \in BOOLEAN :
              /\ rowAllocs' = rowAllocs + 1
              /\ loopAllocs' = loopAllocs + 1
              /\ IF ok
                 THEN /\ acq' = Acquire(RowRes(y + 1))
                      /\ bufs' = Append(bufs, FillRow(FreshRow, y))
                      /\ bufSrc' = Append(bufSrc, y)
                      /\ row_pointers' = [row_pointers EXCEPT ![y + 1] = TRUE]
                      /\ y' = NextRow(y)
                      /\ UNCHANGED << pc, failed, rel, result >>
                 ELSE /\ Fail({RowRes(i) : i \in 1..y}
                              \cup {R("png"), R("info"), R("fp"), R("raster")})
                      /\ UNCHANGED << acq, bufs, bufSrc, row_pointers, y >>
       ELSE /\ pc' = "WriteImage"
            /\ y' = 0
            /\ UNCHANGED << acq, bufs, bufSrc, row_pointers, failed, rel,
                            result, rowAllocs, loopAllocs >>
    /\ UNCHANGED << mainState, dims, raster, fp, png_ptr, info_ptr, row, trap,
                    encLog, fileOpened, idx >>

WriteImageReversed ==
    /\ pc = "WriteImage"
    /\ IF y < height
       THEN /\ EncCall("write_row", bufSrc[height - y], bufs[height - y],
                       "WriteImage")
            /\ y' = IF pc' = "WriteImage" THEN y + 1 ELSE y
       ELSE /\ pc' = "WriteEnd"
            /\ UNCHANGED << y, encLog, failed >>
    /\ UNCHANGED << mainState, dims, ptrs, bufs, bufSrc, rowAllocs,
                    loopAllocs, trap, acq, rel, result, fileOpened, idx >>

\* png_write_image(png_ptr, row_pointers.data()): for a non-interlaced image
\* libpng calls png_write_row on row_pointers[0], ..., row_pointers[height-1]
\* in this order; y counts the rows it has written.
WriteImage ==
    /\ pc = "WriteImage"
    /\ IF y < height
       THEN /\ EncCall("write_row", bufSrc[y + 1], bufs[y + 1], "WriteImage")
            /\ y' = IF pc' = "WriteImage" THEN y + 1 ELSE y
       ELSE /\ pc' = "WriteEnd"
            /\ UNCHANGED << y, encLog, failed >>
    /\ UNCHANGED << mainState, dims, ptrs, bufs, bufSrc, rowAllocs,
                    loopAllocs, trap, acq, rel, result, fileOpened, idx >>

WriteEnd ==
    /\ pc = "WriteEnd"
    /\ EncCall("write_end", -1, <<>>, "Cleanup")
    /\ UNCHANGED << mainState, dims, ptrs, rowState, trap, acq, rel, result,
                    fileOpened, idx >>

\* The end of a successful conversion: the explicit frees (main1, main2,
\* part1) or ~Resources (part0), then the normal return.
Cleanup ==
    /\ pc = "Cleanup"
    /\ rel' = Release(IF rev = "part0" THEN GuardedFrees ELSE NormalFrees)
    /\ result' = "true"
    /\ pc' = "Return"
    /\ UNCHANGED << mainState, dims, ptrs, rowState, trap, encLog, acq,
                    failed, fileOpened, idx >>

\* setjmp returns a second time, non-zero, after libpng's longjmp. Automatic
\* variables changed since the setjmp call (row; the vector row_pointers) are
\* indeterminate: they hold their current value or the one they had when
\* setjmp was called. main2 releases the encoder structs, the file and the
\* raster here and returns false; the others throw std::runtime_error.
Jmp ==
    /\ pc = "Jmp"
    /\ IF rev = "main2"
       THEN /\ rel' = Release({R("png"), R("info"), R("fp"), R("raster")})
            /\ result' = "false"
            /\ pc' = "Return"
            /\ UNCHANGED << row, row_pointers >>
       ELSE /\ \E stale \in BOOLEAN :
                 /\ row' = IF stale THEN FALSE ELSE row
                 /\ row_pointers' = IF stale THEN <<>> ELSE row_pointers
            /\ pc' = "Catch"
            /\ UNCHANGED << rel, result >>
    /\ UNCHANGED << mainState, dims, raster, fp, png_ptr, info_ptr, rowState,
                    trap, encLog, acq, failed, fileOpened, idx >>

\* catch (...) { unified cleanup; return false; } in main1 and part1;
\* in part0 the unwinding runs ~Resources and the exception reaches main.
CatchReportsSuccess ==
    /\ pc = "Catch"
    /\ rel' = Release(GuardedFrees)
    /\ result' = "true"
    /\ pc' = "Return"
    /\ UNCHANGED << mainState, dims, ptrs, rowState, trap, encLog, acq,
                    failed, fileOpened, idx >>

Catch ==
    /\ pc = "Catch"
    /\ rel' = Release(GuardedFrees)
    /\ result' = IF rev = "part0" THEN "throw" ELSE "false"
    /\ pc' = "Return"
    /\ UNCHANGED << mainState, dims, ptrs, rowState, trap, encLog, acq,
                    failed, fileOpened, idx >>

Next ==
    \/ Main \/ Return
    \/ GetDims \/ AllocRaster \/ Decode \/ OpenOut \/ CreateWrite \/ CreateInfo
    \/ SetJmp \/ InitIo \/ SetIHDR \/ WriteInfo
    \/ AllocRow \/ VecAlloc \/ RowLoopSingle \/ RowLoopPointers \/ WriteImage
    \/ WriteEnd \/ Cleanup \/ Jmp \/ Catch

Spec == Init /\ [][Next]_vars


\* ------------------------------------------------------------------ claims
IsRow(e) == e.op = "write_row"
IsWrite(e) == e.op \in {"write_info", "write_row", "write_end"}
RowCalls == SelectSeq(encLog, IsRow)
Writes == SelectSeq(encLog, IsWrite)
EncoderRaised == \E i \in 1..Len(encLog) : ~encLog[i].ok
OkRows == Cardinality({i \in 1..Len(RowCalls) : RowCalls[i].ok})

\* C1: the k-th row handed to the encoder holds, for every column x, the
\* bytes R, G, B, A at offsets 4x..4x+3, where the packed pixel
\* raster[k*width + x] is A*2^24 + R*2^16 + G*2^8 + B; 0x80304050 is emitted
\* as 0x30, 0x40, 0x50, 0x80.
C1_Transcoding ==
    \A k \in 1..Len(RowCalls) :
        LET d == RowCalls[k].data IN
        /\ Len(d) = width * 4
        /\ \A x \in 0..(width - 1) :
              LET px == rasterData[(k - 1) * width + x + 1]
                  r == d[4 * x + 1]
                  g == d[4 * x + 2]
                  b == d[4 * x + 3]
                  a == d[4 * x + 4]
              IN  /\ {r, g, b, a} \subseteq 0..255
                  /\ px.hi = a * 256 + r
                  /\ px.lo = g * 256 + b
                  /\ (px = Word(32816, 16464) => << r, g, b, a >> = << 48, 64, 80, 128 >>)

C1_Witness ==
    /\ width = 2 /\ Len(RowCalls) = 2 /\ RowCalls[2].ok
    /\ rasterData[4] = Word(32816, 16464)

\* C2: on a successful conversion the writes are exactly: the header, then
\* source rows 0..height-1 in increasing order, then the finalize; in every
\* state no row precedes the header and nothing follows the finalize.
C2_CallOrder ==
    /\ \A i \in 1..Len(Writes) :
          /\ (Writes[i].op = "write_info") = (i = 1)
          /\ Writes[i].op = "write_end" => i = Len(Writes)
    /\ result = "true" =>
          /\ Len(Writes) = height + 2
          /\ \A i \in 1..Len(Writes) : Writes[i].ok
          /\ \A k \in 1..height :
                Writes[k + 1].op = "write_row" /\ Writes[k + 1].y = k - 1
          /\ Writes[height + 2].op = "write_end"

C2_Witness == result = "true" /\ height >= 2 /\ rev = "part1"

\* C3: when save_tiff_as_png has returned or thrown, every resource it
\* acquired has been released, and none was released twice.
C3_AllReleased ==
    /\ \A r \in Res : rel[r] <= acq[r]
    /\ result # "none" => \A r \in Res : rel[r] = acq[r]

\* C4: a failure is never masked: after a failed step no encoder call is
\* made any more and the conversion reports failure; success is reported only
\* after the finalize call completed with all height rows written.
C4_NoMaskedFailure ==
    /\ [](failed => result \in {"none", "false", "throw"})
    /\ [](result = "true" =>
            /\ ~failed
            /\ OkRows = height
            /\ encLog[Len(encLog)].op = "write_end"
            /\ encLog[Len(encLog)].ok)
    /\ [][failed => encLog' = encLog]_vars

C4_Witness ==
    /\ result \in {"false", "throw"}
    /\ OkRows >= 1
    /\ ~RowCalls[Len(RowCalls)].ok

\* C5: the exit code is 0 if every input path was converted, 1 if any input
\* failed or none was given, for any number of arguments.
Converted == IF result = "true" THEN attempted ELSE {}
C5_ExitCode ==
    pc = "exit" =>
        exitCode = (IF Len(argv) >= 1 /\ Converted = 1..Len(argv) THEN 0 ELSE 1)

C7_TrapActive ==
    /\ \A i \in 1..Len(encLog) : encLog[i].trap
    /\ pc # "abort"
    /\ EncoderRaised =>
          /\ pc \in {"Jmp", "Catch", "Return", "exit"}
          /\ result \in {"none", "false", "throw"}
          /\ pc \in {"Return", "exit"} =>
                /\ result \in {"false", "throw"}
                /\ rel[R("png")] = 1 /\ rel[R("fp")] = 1 /\ rel[R("raster")] = 1

C7_Witness ==
    /\ pc = "Return" /\ result = "false"
    /\ Len(RowCalls) = 2 /\ ~RowCalls[2].ok /\ RowCalls[2].trap

C9_OutputAfterDecode ==
    /\ fileOpened => decoded
    /\ fp => decoded
    /\ encLog # <<>> => decoded /\ fileOpened
    /\ result # "none" /\ ~decoded => ~fileOpened /\ encLog = <<>>

C9_Witness ==
    /\ pc = "exit" /\ acq[R("raster")] = 1 /\ ~decoded /\ ~fileOpened
    /\ exitCode = 1


\* ------------------------------------------- index arithmetic (SpecIdx)
\* The pixel loop's offsets for 32-bit widths, which the state machine above
\* cannot enumerate. x is a uint32_t and 4 an int, so x * 4 + c is computed in
\* unsigned 32-bit arithmetic; the row buffer holds (size_t)width * 4 bytes,
\* computed in 64 bits. A 64-bit value is the record [top, hi, lo] with
\* value = top * 2^32 + hi * 2^16 + lo.

\* x * 4 as uint32_t
Mul4U32(x) ==
    LET l == x.lo * 4
        h == x.hi * 4 + (l \div Half)
    IN  Word(h % Half, l % Half)

\* (size_t)v * 4
Mul4Size(v) ==
    LET l == v.lo * 4
        h == v.hi * 4 + (l \div Half)
    IN  [top |-> h \div Half, hi |-> h % Half, lo |-> l % Half]

\* u + c for 0 <= c <= 3 (no carry leaves the low half: u.lo is a multiple
\* of 4 wherever this is used)
AddSmall(u, c) == [u EXCEPT !.lo = @ + c]

\* row[x * 4 + c]: the uint32_t offset, zero-extended for the pointer
\* arithmetic
RowOffset(x, c) ==
    LET o == AddSmall(Mul4U32(x), c)
    IN  [top |-> 0, hi |-> o.hi, lo |-> o.lo]

WordLess(a, b) == a.hi < b.hi \/ (a.hi = b.hi /\ a.lo < b.lo)
SizeLess(a, b) ==
    \/ a.top < b.top
    \/ a.top = b.top /\ WordLess(a, b)

\* widths and columns around the places where x * 4 leaves 32 bits:
\* 1, 2, 3, 2^16, 2^30 - 1, 2^30, 2^30 + 1, 2^31, 2^32 - 1
IdxWords == { Word(0, 1), Word(0, 2), Word(0, 3), Word(1, 0), Word(16383, 65535),
              Word(16384, 0), Word(16384, 1), Word(32768, 0),
              Word(65535, 65535) }

IdxInit ==
    /\ rev \in SingleRow
    /\ argv = << "valid" >>
    /\ pc = "idx"
    /\ width = 0 /\ height = 0
    /\ rasterData = <<>>
    /\ raster = TRUE /\ fp = TRUE /\ png_ptr = TRUE /\ info_ptr = TRUE
    /\ row = TRUE
    /\ row_pointers = <<>>
    /\ bufs = <<>> /\ bufSrc = <<>>
    /\ y = 0
    /\ trap = TRUE
    /\ encLog = <<>>
    /\ acq = [r \in Res |-> IF r[1] = "row" /\ r[2] > 1 THEN 0 ELSE 1]
    /\ rel = [r \in Res |-> 0]
    /\ failed = FALSE
    /\ result = "none"
    /\ exitCode = -1
    /\ out = <<>>
    /\ attempted = {1}
    /\ fileOpened = TRUE
    /\ decoded = TRUE
    /\ rowAllocs = 1 /\ loopAllocs = 0
    /\ \E w \in IdxWords :
          idx = [w |-> w, x |-> Word(0, 0), c |-> 0, off |-> RowOffset(Word(0, 0), 0),
                 stage |-> "head"]

\* for (uint32_t x = 0; x < width; ++x): the loop reaches column x
IdxColumn ==
    /\ pc = "idx"
    /\ idx.stage \in {"head", "stored"}
    /\ idx.stage = "stored" => idx.c = 3
    /\ \E x \in IdxWords \cup {Word(0, 0)} :
          /\ WordLess(x, idx.w)
          /\ idx' = [idx EXCEPT !.x = x, !.stage = "body", !.c = 0]
    /\ UNCHANGED << rev, argv, pc, width, height, rasterData, ptrs, rowState,
                    trap, encLog, acq, rel, failed, result, exitCode, out,
                    attempted, fileOpened, decoded >>

\* row[x * 4 + c] = ...   for c = 0, 1, 2, 3 in turn
IdxStore ==
    /\ pc = "idx"
    /\ \/ idx.stage = "body" /\
          idx' = [idx EXCEPT !.off = RowOffset(idx.x, 0), !.stage = "stored"]
       \/ idx.stage = "stored" /\ idx.c < 3 /\
          idx' = [idx EXCEPT !.c = @ + 1, !.off = RowOffset(idx.x, idx.c + 1)]
    /\ UNCHANGED << rev, argv, pc, width, height, rasterData, ptrs, rowState,
                    trap, encLog, acq, rel, failed, result, exitCode, out,
                    attempted, fileOpened, decoded >>

IdxNext == IdxColumn \/ IdxStore

SpecIdx == IdxInit /\ [][IdxNext]_vars

\* C10: every row-buffer store uses an offset that, as computed in unsigned
\* 32-bit arithmetic, equals 4x + c and lies below the width * 4 bytes of the
\* row buffer, for every 32-bit width.
C10_InBounds ==
    idx.stage = "stored" =>
        LET exact == Mul4Size(idx.x) IN
        /\ idx.off = [exact EXCEPT !.lo = @ + idx.c]
        /\ SizeLess(idx.off, Mul4Size(idx.w))

====
